---- MODULE Spec2Model ----
(***************************************************************************)
(* Model of the priority task scheduler of Satin                           *)
(* (src/main/task_scheduler.py): ScheduledTask records, the Ready Queue    *)
(* (queue.PriorityQueue over heapq), the Delay Heap (heapq list), the      *)
(* promotion thread, the worker threads and the facade operations.         *)
(***************************************************************************)
EXTENDS Integers, Sequences, FiniteSets, TLC

VARIABLES
    cfg,              \* the inputs of the run: num_workers, the calls the caller
                      \* makes, and how the run keeps time
    nsub,             \* number of calls of cfg.plan already made
    clock,            \* time.time()
    records,          \* every ScheduledTask object created so far (index = identity)
    tasks,            \* self.tasks: task_id -> record index (0 = absent)
    ready_queue,      \* self.ready_queue.queue: heap list of <<key, record or None>>
    scheduled_tasks,  \* self.scheduled_tasks: heap list of <<scheduled_time, record>>
    running,          \* self.running
    lock,             \* holder of self.lock
    caller,           \* the calling thread: its position inside a call, and what
                      \* its calls have returned or raised
    sched,            \* the promotion thread: position and its local `now`
    wpc,              \* position of each worker thread
    wtask,            \* the task each worker thread holds in its local `task`
    hist,             \* per record: what has happened to it (observation only)
    globals           \* the module: the global _scheduler, the TaskScheduler
                      \* objects get_scheduler has made, and the threads that
                      \* call get_scheduler and shutdown_scheduler

vars == <<cfg, nsub, clock, records, tasks, ready_queue, scheduled_tasks,
          running, lock, caller, sched, wpc, wtask, hist, globals>>

----------------------------------------------------------------------------
(* Bounds of the model *)
MaxTime == 2
MaxRecords == 3
\* the same for a run that keeps time, in ticks of half a second
MaxUptime == 10
MaxUptimeRecords == 5

(* TaskPriority *)
LOW == 0
NORMAL == 1
HIGH == 2
CRITICAL == 3

(* the None of the shutdown signal (0, None) *)
None == 0

----------------------------------------------------------------------------
(* Comparison of queue items, as Python compares the tuples; recs are the
   ScheduledTask objects the items refer to *)

\* ScheduledTask.__eq__ of @dataclass(order=True): the compare=True fields
TaskEq(recs, a, b) ==
    /\ recs[a].priority = recs[b].priority
    /\ recs[a].scheduled_time = recs[b].scheduled_time

\* ScheduledTask.__lt__: (priority, scheduled_time) < (priority, scheduled_time)
TaskLt(recs, a, b) ==
    \/ recs[a].priority < recs[b].priority
    \/ /\ recs[a].priority = recs[b].priority
       /\ recs[a].scheduled_time < recs[b].scheduled_time

\* (k1, t1) < (k2, t2): "lt", "ge", or "err" (TypeError: a task against None)
ItemLt(recs, x, y) ==
    IF x[1] # y[1] THEN (IF x[1] < y[1] THEN "lt" ELSE "ge")
    ELSE IF x[2] = None /\ y[2] = None THEN "ge"
    ELSE IF x[2] = None \/ y[2] = None THEN "err"
    ELSE IF TaskEq(recs, x[2], y[2]) THEN "ge"
    ELSE IF TaskLt(recs, x[2], y[2]) THEN "lt" ELSE "ge"

Swap(h, i, j) == [h EXCEPT ![i] = h[j], ![j] = h[i]]

(* heapq (the C implementation CPython uses); positions are 1-based here *)

\* _heapq siftdown: move the item at pos up while it is smaller than its parent
RECURSIVE SiftDown(_, _, _, _)
SiftDown(recs, h, startpos, pos) ==
    IF pos > startpos
    THEN LET parentpos == pos \div 2
             c == ItemLt(recs, h[pos], h[parentpos])
         IN  IF c = "err" THEN [heap |-> h, err |-> TRUE]
             ELSE IF c = "ge" THEN [heap |-> h, err |-> FALSE]
             ELSE SiftDown(recs, Swap(h, pos, parentpos), startpos, parentpos)
    ELSE [heap |-> h, err |-> FALSE]

\* the loop of _heapq siftup: bubble the smaller child up until a leaf
RECURSIVE SiftUpLoop(_, _, _)
SiftUpLoop(recs, h, pos) ==
    IF 2 * pos <= Len(h)
    THEN LET c == IF 2 * pos + 1 <= Len(h)
                  THEN ItemLt(recs, h[2 * pos], h[2 * pos + 1])
                  ELSE "lt"
             childpos == IF c = "ge" THEN 2 * pos + 1 ELSE 2 * pos
         IN  IF c = "err" THEN [heap |-> h, pos |-> pos, err |-> TRUE]
             ELSE SiftUpLoop(recs, Swap(h, childpos, pos), childpos)
    ELSE [heap |-> h, pos |-> pos, err |-> FALSE]

\* _heapq siftup
SiftUp(recs, h, pos) ==
    LET l == SiftUpLoop(recs, h, pos)
    IN  IF l.err THEN [heap |-> l.heap, err |-> TRUE]
        ELSE SiftDown(recs, l.heap, pos, l.pos)

\* heapq.heappush: the item is appended before it is sifted
HeapPush(recs, h, item) == SiftDown(recs, Append(h, item), 1, Len(h) + 1)

\* a pop of the last item of the list instead of the smallest
HeapPopLast(recs, h) ==
    [heap |-> SubSeq(h, 1, Len(h) - 1), item |-> h[Len(h)], err |-> FALSE]

\* a read of the smallest item that leaves it in the list
HeapPeek(recs, h) == [heap |-> h, item |-> h[1], err |-> FALSE]

\* heapq.heappop: on a comparison error the popped item is dropped
HeapPop(recs, h) ==
    LET n == Len(h)
        lastelt == h[n]
        rest == SubSeq(h, 1, n - 1)
    IN  IF n = 1 THEN [heap |-> rest, item |-> lastelt, err |-> FALSE]
        ELSE LET s == SiftUp(recs, [rest EXCEPT ![1] = lastelt], 1)
             IN  [heap |-> s.heap, item |-> h[1], err |-> s.err]

----------------------------------------------------------------------------
(* Where a record is *)
InReady(r) == \E i \in 1..Len(ready_queue) : ready_queue[i][2] = r
InDelayed(r) == \E i \in 1..Len(scheduled_tasks) : scheduled_tasks[i][2] = r
Held(r) == \E w \in DOMAIN wtask : wtask[w] = r

\* the callable of a plain task: it returns a value or raises
PlainFunc(raises) ==
    [wrapper |-> FALSE, raises |-> raises, interval |-> 0, priority |-> 0,
     max_retries |-> 0]

\* the closure periodic_wrapper of schedule_periodic
PeriodicWrapper(raises, interval, priority, max_retries) ==
    [wrapper |-> TRUE, raises |-> raises, interval |-> interval,
     priority |-> priority, max_retries |-> max_retries]

\* what is observed of a record:
\*   attempts    calls of its callable so far
\*   seen        number of records that existed when a worker dequeued it (0: never)
\*   cancelled   a cancel_task on it has returned True
\*   cancelQ     the queue it was waiting in when a cancel_task returned True
\*   cancelLate  a cancel_task called after a worker had dequeued it returned True
\*   ranAfter    its callable was called after a cancel_task returned True
\*   atStop      it was in the Delay Heap, not yet due, when stop(wait=True) was called
\*   results     assignments of self.result so far
\*   errors      assignments of self.error so far
NoHist ==
    [attempts |-> 0, seen |-> 0, cancelled |-> FALSE, cancelQ |-> "no",
     cancelLate |-> FALSE, ranAfter |-> FALSE, atStop |-> FALSE,
     results |-> 0, errors |-> 0]

\* schedule() without the negation of the priority
QueueKeyNotNegated(priority) == priority

\* the key schedule() queues a task under: lower values are higher priority
QueueKey(priority) == 0 - priority

\* TaskScheduler.schedule: the state after the call (raised: put raised TypeError)
ScheduleCall(func, priority, delay, max_retries, task_id) ==
    LET r == Len(records) + 1
        task == [priority |-> QueueKey(priority),
                 scheduled_time |-> clock + delay,
                 task_id |-> task_id,
                 func |-> func,
                 status |-> "PENDING",
                 result |-> "None",
                 error |-> "None",
                 retries |-> 0,
                 max_retries |-> max_retries,
                 created_at |-> clock]
        recs == Append(records, task)
        put == HeapPush(recs, ready_queue, <<task.priority, r>>)
        push == HeapPush(recs, scheduled_tasks, <<task.scheduled_time, r>>)
    IN  IF delay <= 0
        THEN [records |-> recs, ready_queue |-> put.heap,
              scheduled_tasks |-> scheduled_tasks,
              tasks |-> IF put.err THEN tasks ELSE [tasks EXCEPT ![task_id] = r],
              raised |-> put.err]
        ELSE [records |-> recs, ready_queue |-> ready_queue,
              scheduled_tasks |-> push.heap,
              tasks |-> [tasks EXCEPT ![task_id] = r],
              raised |-> FALSE]

----------------------------------------------------------------------------
(* The inputs: the number of workers and the calls the calling thread makes,
   in order. A task_id is the position in the plan of the call that made it
   (schedule() draws a fresh uuid4 for every call). *)

\* timeout=None of get_task_result
NoTimeout == 0 - 1

Call(op, raises, priority, delay, max_retries, wait, target, timeout) ==
    [op |-> op, raises |-> raises, priority |-> priority, delay |-> delay,
     max_retries |-> max_retries, wait |-> wait, target |-> target,
     timeout |-> timeout, at |-> 0, id |-> 0]

\* the call is made when the clock shows t: the caller has slept until then
At(t, call) == [call EXCEPT !.at = t]

\* the call passes task_id=, the id an earlier call of the plan has made
WithId(i, call) == [call EXCEPT !.id = i]

\* task_id = task_id or str(uuid.uuid4()), for call number i of the plan
TaskIdOf(i) == IF cfg.plan[i].id # 0 THEN cfg.plan[i].id ELSE i

\* start()
DoStart == Call("start", FALSE, 0, 0, 0, FALSE, 0, NoTimeout)
\* stop(wait)
DoStop(wait) == Call("stop", FALSE, 0, 0, 0, wait, 0, NoTimeout)
\* schedule(f, priority=p, delay=d) with f returning
Sub(p, d) == Call("schedule", FALSE, p, d, 0, FALSE, 0, NoTimeout)
\* schedule(f, priority=p, delay=d, max_retries=k) with f raising
SubRaising(p, d, k) == Call("schedule", TRUE, p, d, k, FALSE, 0, NoTimeout)
\* schedule_periodic(f, interval, priority=p, max_retries=k)
SubPeriodic(raises, p, interval, k) ==
    Call("periodic", raises, p, interval, k, FALSE, 0, NoTimeout)
\* cancel_task(id); the id is the one of the task made by call number target,
\* and an id no call has made when that call makes no task
DoCancel(target) == Call("cancel", FALSE, 0, 0, 0, FALSE, target, NoTimeout)
\* get_task_status(id)
GetStatus(target) == Call("status", FALSE, 0, 0, 0, FALSE, target, NoTimeout)
\* get_task_result(id, timeout)
GetResult(target, timeout) == Call("result", FALSE, 0, 0, 0, FALSE, target, timeout)

\* what a call of the plan has come to: nothing yet, a return value, an exception
NoReply == [kind |-> "none", value |-> "none"]
Returned(v) == [kind |-> "return", value |-> v]
Raised(e) == [kind |-> "raise", value |-> e]

\* a run with arbitrary latencies: a thread may be late by any amount at any
\* point and a time.sleep may take any time; the clock counts seconds
Run(n, plan) ==
    [num_workers |-> n, plan |-> plan, prompt |-> FALSE, second |-> 1,
     horizon |-> MaxTime, max_records |-> MaxRecords]

\* a run that keeps time: the clock counts half seconds, a time.sleep(d)
\* takes d, and everything else (the callables included) takes no time
PromptRun(n, plan) ==
    [num_workers |-> n, plan |-> plan, prompt |-> TRUE, second |-> 2,
     horizon |-> MaxUptime, max_records |-> MaxUptimeRecords]

NextCall == cfg.plan[nsub + 1]

TypeOK ==
    /\ nsub \in 0..Len(cfg.plan)
    /\ clock \in 0..cfg.horizon
    /\ Len(records) <= cfg.max_records
    /\ Len(hist) = Len(records)
    /\ running \in BOOLEAN
    /\ lock \in {"free", "sched", "caller"}
    /\ caller.pc \in {"idle", "cancel", "stop", "join", "poll", "found", "waited"}
    /\ DOMAIN caller.ret = 1..Len(cfg.plan)
    /\ sched.pc \in {"new", "top", "loop", "dead"}
    /\ \A w \in DOMAIN wpc :
          wpc[w] \in {"new", "top", "get", "claimed", "running", "dead"}

\* the module after import, with the calls each thread will make:
\*   scheduler   the global _scheduler: 0 for None, or the number of an instance
\*   instances   the TaskScheduler objects made so far: self.running, and
\*               whether scheduler_thread.start() has been called
\*   pc, inst    where each thread is in its call, and the instance it is in
\*               the start() of
\*   ret         what the calls of each thread have returned or raised; of a
\*               returned instance, whether it was started when returned
Globals(calls) ==
    [scheduler |-> 0,
     instances |-> <<>>,
     calls |-> calls,
     pc |-> [t \in DOMAIN calls |-> "idle"],
     inst |-> [t \in DOMAIN calls |-> 0],
     ret |-> [t \in DOMAIN calls |-> <<>>]]

\* a run that uses no global accessor
NoGlobals == Globals(<<>>)

\* TaskScheduler.__init__, before any call
InitWith(configs) ==
    /\ cfg \in configs
    /\ nsub = 0
    /\ clock = 0
    /\ records = <<>>
    /\ tasks = [i \in 1..Len(cfg.plan) |-> 0]
    /\ ready_queue = <<>>
    /\ scheduled_tasks = <<>>
    /\ running = FALSE
    /\ lock = "free"
    /\ caller = [pc |-> "idle", task |-> 0, late |-> FALSE, wait |-> FALSE,
                 start_time |-> 0, deadline |-> "no", joined |-> FALSE,
                 ret |-> [i \in 1..Len(cfg.plan) |-> NoReply]]
    /\ sched = [pc |-> "new", now |-> 0, wake |-> 0]
    /\ wpc = [w \in 1..cfg.num_workers |-> "new"]
    /\ wtask = [w \in 1..cfg.num_workers |-> 0]
    /\ hist = <<>>
    /\ globals = NoGlobals

----------------------------------------------------------------------------
(* The calling thread *)

CallerAt(op) ==
    /\ caller.pc = "idle"
    /\ nsub < Len(cfg.plan)
    /\ NextCall.op = op
    /\ NextCall.at <= clock

\* a start() without the test of self.running
NeverStarted == FALSE

\* if self.running: return
AlreadyStarted == running

\* TaskScheduler.start
Start ==
    /\ CallerAt("start")
    /\ nsub' = nsub + 1
    /\ IF AlreadyStarted
       THEN /\ caller' = [caller EXCEPT !.ret[nsub + 1] = Returned("None")]
            /\ UNCHANGED <<running, sched, wpc>>
       ELSE /\ running' = TRUE
            /\ IF sched.pc = "new"
               THEN /\ sched' = [sched EXCEPT !.pc = "top"]
                    /\ wpc' = [w \in DOMAIN wpc |-> "top"]
                    /\ caller' = [caller EXCEPT !.ret[nsub + 1] = Returned("None")]
               ELSE \* scheduler_thread.start() raises RuntimeError
                    /\ caller' = [caller EXCEPT
                                    !.ret[nsub + 1] = Raised("RuntimeError")]
                    /\ UNCHANGED <<sched, wpc>>
    /\ UNCHANGED <<globals, cfg, clock, records, tasks, ready_queue, scheduled_tasks,
                   lock, wtask, hist>>

\* TaskScheduler.stop, up to self.running = False
Stop ==
    /\ CallerAt("stop")
    /\ nsub' = nsub + 1
    /\ IF ~running
       THEN /\ caller' = [caller EXCEPT !.ret[nsub + 1] = Returned("None")]
            /\ UNCHANGED <<running, hist>>
       ELSE /\ running' = FALSE
            /\ caller' = [caller EXCEPT !.pc = "stop", !.wait = NextCall.wait]
            /\ hist' = [r \in DOMAIN hist |->
                         IF /\ NextCall.wait
                            /\ InDelayed(r)
                            /\ records[r].scheduled_time > clock
                         THEN [hist[r] EXCEPT !.atStop = TRUE] ELSE hist[r]]
    /\ UNCHANGED <<globals, cfg, clock, records, tasks, ready_queue, scheduled_tasks,
                   lock, sched, wpc, wtask>>

\* for _ in range(len(self.workers)): self.ready_queue.put((0, None))
RECURSIVE PutSignals(_, _)
PutSignals(h, k) ==
    IF k = 0 THEN [heap |-> h, err |-> FALSE]
    ELSE LET p == HeapPush(records, h, <<0, None>>)
         IN  IF p.err THEN p ELSE PutSignals(p.heap, k - 1)

\* len(self.workers)
NumWorkerThreads == IF sched.pc = "new" THEN 0 ELSE cfg.num_workers

\* TaskScheduler.stop: "with self.lock" and what follows; a TypeError of put
\* leaves stop() before the joins
StopSignal ==
    /\ caller.pc = "stop"
    /\ lock = "free"
    /\ LET p == PutSignals(ready_queue, NumWorkerThreads)
       IN  /\ ready_queue' = p.heap
           /\ caller' = [caller EXCEPT
                           !.pc = IF ~p.err /\ caller.wait THEN "join" ELSE "idle",
                           !.wait = FALSE,
                           !.ret[nsub] = IF p.err THEN Raised("TypeError")
                                         ELSE IF caller.wait THEN @
                                         ELSE Returned("None")]
    /\ UNCHANGED <<globals, cfg, nsub, clock, records, tasks, scheduled_tasks, running,
                   lock, sched, wpc, wtask, hist>>

\* a stop() that joins the promotion thread only
JoinedPromotionOnly == sched.pc = "dead"

\* self.scheduler_thread.join(); for worker in self.workers: worker.join()
Joined == sched.pc = "dead" /\ \A w \in DOMAIN wpc : wpc[w] = "dead"

\* TaskScheduler.stop: the joins return
StopJoined ==
    /\ caller.pc = "join"
    /\ Joined
    /\ caller' = [caller EXCEPT !.pc = "idle", !.joined = TRUE,
                                !.ret[nsub] = Returned("None")]
    /\ UNCHANGED <<globals, cfg, nsub, clock, records, tasks, ready_queue,
                   scheduled_tasks, running, lock, sched, wpc, wtask, hist>>

\* TaskScheduler.schedule called by the caller
Schedule ==
    /\ CallerAt("schedule")
    /\ lock = "free"
    /\ Len(records) < cfg.max_records
    /\ LET s == ScheduleCall(PlainFunc(NextCall.raises), NextCall.priority,
                             NextCall.delay, NextCall.max_retries,
                             TaskIdOf(nsub + 1))
       IN  /\ records' = s.records
           /\ ready_queue' = s.ready_queue
           /\ scheduled_tasks' = s.scheduled_tasks
           /\ tasks' = s.tasks
           /\ caller' = [caller EXCEPT
                           !.ret[nsub + 1] = IF s.raised THEN Raised("TypeError")
                                             ELSE Returned("task_id")]
    /\ hist' = Append(hist, NoHist)
    /\ nsub' = nsub + 1
    /\ UNCHANGED <<globals, cfg, clock, running, lock, sched, wpc, wtask>>

\* TaskScheduler.schedule_periodic: the first run is scheduled without max_retries
SchedulePeriodic ==
    /\ CallerAt("periodic")
    /\ lock = "free"
    /\ Len(records) < cfg.max_records
    /\ LET s == ScheduleCall(PeriodicWrapper(NextCall.raises, NextCall.delay,
                                             NextCall.priority,
                                             NextCall.max_retries),
                             NextCall.priority, NextCall.delay, 0,
                             TaskIdOf(nsub + 1))
       IN  /\ records' = s.records
           /\ ready_queue' = s.ready_queue
           /\ scheduled_tasks' = s.scheduled_tasks
           /\ tasks' = s.tasks
           /\ caller' = [caller EXCEPT
                           !.ret[nsub + 1] = IF s.raised THEN Raised("TypeError")
                                             ELSE Returned("task_id")]
    /\ hist' = Append(hist, NoHist)
    /\ nsub' = nsub + 1
    /\ UNCHANGED <<globals, cfg, clock, running, lock, sched, wpc, wtask>>

\* TaskScheduler.cancel_task: the lock is taken and the status is tested;
\* without a PENDING task the call returns False
CancelCheck ==
    /\ CallerAt("cancel")
    /\ lock = "free"
    /\ nsub' = nsub + 1
    /\ LET r == tasks[NextCall.target]
       IN  IF r # 0 /\ records[r].status = "PENDING"
           THEN /\ lock' = "caller"
                /\ caller' = [caller EXCEPT !.pc = "cancel", !.task = r,
                                            !.late = hist[r].seen > 0]
           ELSE /\ caller' = [caller EXCEPT !.ret[nsub + 1] = Returned("False")]
                /\ UNCHANGED lock
    /\ UNCHANGED <<globals, cfg, clock, records, tasks, ready_queue, scheduled_tasks,
                   running, sched, wpc, wtask, hist>>

\* TaskScheduler.cancel_task: task.status = CANCELLED; return True
CancelSet ==
    /\ caller.pc = "cancel"
    /\ LET r == caller.task
       IN  /\ records' = [records EXCEPT ![r].status = "CANCELLED"]
           /\ hist' = [hist EXCEPT
                 ![r].cancelled = TRUE,
                 ![r].cancelQ = IF InDelayed(r) THEN "delayed"
                                ELSE IF InReady(r) THEN "ready" ELSE @,
                 ![r].cancelLate = @ \/ caller.late]
    /\ lock' = "free"
    /\ caller' = [caller EXCEPT !.pc = "idle", !.task = 0, !.late = FALSE,
                                !.ret[nsub] = Returned("True")]
    /\ UNCHANGED <<globals, cfg, nsub, clock, tasks, ready_queue, scheduled_tasks,
                   running, sched, wpc, wtask>>

\* a task map that forgets a task once it has left the queues
TasksGetQueued(task_id) ==
    IF tasks[task_id] # 0 /\ (InReady(tasks[task_id]) \/ InDelayed(tasks[task_id]))
    THEN tasks[task_id] ELSE 0

\* self.tasks.get(task_id): the record, or 0 for None
TasksGet(task_id) == tasks[task_id]

\* TaskScheduler.get_task_status: no lock is taken
GetTaskStatus ==
    /\ CallerAt("status")
    /\ nsub' = nsub + 1
    /\ LET r == TasksGet(NextCall.target)
       IN  caller' = [caller EXCEPT
                        !.ret[nsub + 1] = Returned(IF r = 0 THEN "None"
                                                   ELSE records[r].status)]
    /\ UNCHANGED <<globals, cfg, clock, records, tasks, ready_queue, scheduled_tasks,
                   running, lock, sched, wpc, wtask, hist>>

\* task.status in (COMPLETED, FAILED, CANCELLED)
Terminal(status) == status \in {"COMPLETED", "FAILED", "CANCELLED"}

\* TaskScheduler.get_task_result: start_time = time.time()
ResultCall ==
    /\ CallerAt("result")
    /\ nsub' = nsub + 1
    /\ caller' = [caller EXCEPT !.pc = "poll", !.start_time = clock,
                                !.deadline = "no"]
    /\ UNCHANGED <<globals, cfg, clock, records, tasks, ready_queue, scheduled_tasks,
                   running, lock, sched, wpc, wtask, hist>>

\* one turn of the while: with self.lock, the task is looked up and its status
\* is tested; an unknown id returns None
ResultPoll ==
    /\ caller.pc = "poll"
    /\ lock = "free"
    /\ LET r == TasksGet(cfg.plan[nsub].target)
       IN  IF r = 0
           THEN /\ caller' = [caller EXCEPT !.pc = "idle",
                                            !.ret[nsub] = Returned("None")]
                /\ UNCHANGED lock
           ELSE IF Terminal(records[r].status)
           THEN /\ caller' = [caller EXCEPT !.pc = "found", !.task = r]
                /\ lock' = "caller"
           ELSE /\ caller' = [caller EXCEPT !.pc = "waited"]
                /\ UNCHANGED lock
    /\ UNCHANGED <<globals, cfg, nsub, clock, records, tasks, ready_queue,
                   scheduled_tasks, running, sched, wpc, wtask, hist>>

\* if task.status == FAILED and task.error: raise task.error
\* return task.result
ResultReturn ==
    /\ caller.pc = "found"
    /\ LET task == records[caller.task]
       IN  caller' = [caller EXCEPT
                        !.pc = "idle", !.task = 0,
                        !.ret[nsub] =
                            IF task.status = "FAILED" /\ task.error # "None"
                            THEN Raised(task.error)
                            ELSE Returned(task.result)]
    /\ lock' = "free"
    /\ UNCHANGED <<globals, cfg, nsub, clock, records, tasks, ready_queue,
                   scheduled_tasks, running, sched, wpc, wtask, hist>>

\* a deadline counted from time 0 instead of from the start of the call
TimedOutSinceEpoch(timeout) == timeout # NoTimeout /\ clock > timeout

\* timeout is not None and (time.time() - start_time) > timeout
TimedOut(timeout) == timeout # NoTimeout /\ clock - caller.start_time > timeout

\* if the call has timed out: raise TimeoutError; otherwise time.sleep(0.1)
\* and the next turn
ResultDeadline ==
    /\ caller.pc = "waited"
    /\ LET timeout == cfg.plan[nsub].timeout
       IN  IF TimedOut(timeout)
           THEN caller' = [caller EXCEPT !.pc = "idle",
                                         !.ret[nsub] = Raised("TimeoutError")]
           ELSE caller' = [caller EXCEPT !.pc = "poll"]
    /\ UNCHANGED <<globals, cfg, nsub, clock, records, tasks, ready_queue,
                   scheduled_tasks, running, lock, sched, wpc, wtask, hist>>

----------------------------------------------------------------------------
(* The promotion thread: TaskScheduler._scheduler_loop *)

\* the time.sleep of the loop is over
Awake == cfg.prompt => clock >= sched.wake

\* while self.running: now = time.time(); with self.lock:
SchedulerTop ==
    /\ sched.pc = "top"
    /\ Awake
    /\ IF running
       THEN /\ lock = "free"
            /\ lock' = "sched"
            /\ sched' = [pc |-> "loop", now |-> clock, wake |-> 0]
       ELSE /\ sched' = [pc |-> "dead", now |-> 0, wake |-> 0]
            /\ UNCHANGED lock
    /\ UNCHANGED <<globals, cfg, nsub, clock, records, tasks, ready_queue,
                   scheduled_tasks, running, caller, wpc, wtask, hist>>

\* the head of the heap is taken one time unit early
DueEarly(now) == scheduled_tasks # <<>> /\ scheduled_tasks[1][1] <= now + 1

\* self.scheduled_tasks and self.scheduled_tasks[0][0] <= now
Due(now) == scheduled_tasks # <<>> /\ scheduled_tasks[1][1] <= now

\* a promotion that does not look at the status
PromotesAny(task) == TRUE

\* if task.status == TaskStatus.PENDING
StillPending(task) == records[task].status = "PENDING"

\* one turn of the inner while: heappop, and put if the task is still PENDING
SchedulerPromote ==
    /\ sched.pc = "loop"
    /\ Due(sched.now)
    /\ LET p == HeapPop(records, scheduled_tasks)
           task == p.item[2]
           q == HeapPush(records, ready_queue, <<records[task].priority, task>>)
       IN  /\ scheduled_tasks' = p.heap
           /\ IF StillPending(task)
              THEN /\ ready_queue' = q.heap
                   /\ IF q.err
                      THEN \* TypeError ends the thread; the with releases the lock
                           /\ sched' = [pc |-> "dead", now |-> 0, wake |-> 0]
                           /\ lock' = "free"
                      ELSE UNCHANGED <<sched, lock>>
              ELSE UNCHANGED <<ready_queue, sched, lock>>
    /\ UNCHANGED <<globals, cfg, nsub, clock, records, tasks, running, caller, wpc,
                   wtask, hist>>

Min(a, b) == IF a < b THEN a ELSE b
Max(a, b) == IF a < b THEN b ELSE a

\* a loop that sleeps two seconds whatever is scheduled
OverSleep(now) == 2 * cfg.second

\* next_run = max(0, (self.scheduled_tasks[0][0] - now) if self.scheduled_tasks
\* else 1); the sleep lasts min(1.0, next_run)
SleepTime(now) ==
    LET next_run == Max(0, IF scheduled_tasks # <<>>
                           THEN scheduled_tasks[1][1] - now ELSE cfg.second)
    IN  Min(cfg.second, next_run)

\* the inner while ends, the lock is released, the thread sleeps
SchedulerSleep ==
    /\ sched.pc = "loop"
    /\ ~Due(sched.now)
    /\ sched' = [pc |-> "top", now |-> 0,
                 wake |-> IF cfg.prompt THEN clock + SleepTime(sched.now) ELSE 0]
    /\ lock' = "free"
    /\ UNCHANGED <<globals, cfg, nsub, clock, records, tasks, ready_queue,
                   scheduled_tasks, running, caller, wpc, wtask, hist>>

----------------------------------------------------------------------------
(* The worker threads: TaskScheduler._worker_loop *)

\* while self.running:
WorkerTop(w) ==
    /\ wpc[w] = "top"
    /\ wpc' = [wpc EXCEPT ![w] = IF running THEN "get" ELSE "dead"]
    /\ UNCHANGED <<globals, cfg, nsub, clock, records, tasks, ready_queue,
                   scheduled_tasks, running, lock, caller, sched, wtask, hist>>

\* _, task = self.ready_queue.get(timeout=1) with an item in the queue
WorkerGet(w) ==
    /\ wpc[w] = "get"
    /\ ready_queue # <<>>
    /\ LET p == HeapPop(records, ready_queue)
           task == p.item[2]
       IN  /\ ready_queue' = p.heap
           /\ IF p.err
              THEN \* TypeError, caught by the outer except of the loop
                   /\ wpc' = [wpc EXCEPT ![w] = "top"]
                   /\ UNCHANGED <<wtask, hist>>
              ELSE IF task = None
              THEN \* shutdown signal: break
                   /\ wpc' = [wpc EXCEPT ![w] = "dead"]
                   /\ UNCHANGED <<wtask, hist>>
              ELSE /\ wpc' = [wpc EXCEPT ![w] = "claimed"]
                   /\ wtask' = [wtask EXCEPT ![w] = task]
                   /\ hist' = [hist EXCEPT ![task].seen = Len(records)]
    /\ UNCHANGED <<globals, cfg, nsub, clock, records, tasks, scheduled_tasks, running,
                   lock, caller, sched>>

\* queue.Empty after the timeout: continue
WorkerTimeout(w) ==
    /\ wpc[w] = "get"
    /\ ready_queue = <<>>
    /\ wpc' = [wpc EXCEPT ![w] = "top"]
    /\ UNCHANGED <<globals, cfg, nsub, clock, records, tasks, ready_queue,
                   scheduled_tasks, running, lock, caller, sched, wtask, hist>>

\* ScheduledTask.run: self.status = RUNNING and the call of self.func
WorkerRun(w) ==
    /\ wpc[w] = "claimed"
    /\ LET r == wtask[w]
       IN  /\ records' = [records EXCEPT ![r].status = "RUNNING"]
           /\ hist' = [hist EXCEPT ![r].attempts = @ + 1,
                                   ![r].ranAfter = @ \/ hist[r].cancelled]
    /\ wpc' = [wpc EXCEPT ![w] = "running"]
    /\ UNCHANGED <<globals, cfg, nsub, clock, tasks, ready_queue, scheduled_tasks,
                   running, lock, caller, sched, wtask>>

\* a run() that leaves the status RUNNING when self.func has returned
OutcomeStaysRunning(task) ==
    IF ~task.func.raises
    THEN [task EXCEPT !.result = IF task.func.wrapper THEN "None" ELSE "value"]
    ELSE IF task.retries < task.max_retries
    THEN [task EXCEPT !.error = "exception", !.retries = @ + 1,
                      !.status = "PENDING"]
    ELSE [task EXCEPT !.error = "exception", !.status = "FAILED"]

\* ScheduledTask.run after self.func returned or raised
Outcome(task) ==
    IF ~task.func.raises
    THEN [task EXCEPT !.result = IF task.func.wrapper THEN "None" ELSE "value",
                      !.status = "COMPLETED"]
    ELSE IF task.retries < task.max_retries
    THEN [task EXCEPT !.error = "exception", !.retries = @ + 1,
                      !.status = "PENDING"]
    ELSE [task EXCEPT !.error = "exception", !.status = "FAILED"]

\* run() assigns self.result when self.func returned and self.error when it raised
Assigned(r) ==
    IF records[r].func.raises
    THEN [hist EXCEPT ![r].errors = @ + 1]
    ELSE [hist EXCEPT ![r].results = @ + 1]

\* a wrapper that reschedules only after a run that did not raise
ReschedulesOnSuccess(f) == f.wrapper /\ running /\ ~f.raises

\* periodic_wrapper: "finally: if self.running:" reschedules after every run
Reschedules(f) == f.wrapper /\ running

\* a loop without "except Exception" around task.run(): the exception run()
\* raises again for a FAILED task ends the thread
AfterRunUncaught(task) ==
    IF task.func.raises /\ ~(task.retries < task.max_retries) THEN "dead" ELSE "top"

\* try: task.run() except Exception: print(...) finally: task_done(); the
\* while loop goes on whatever run() returned or raised
AfterRun(task) == "top"

\* the callable ends (the finally of periodic_wrapper reschedules), run() sets
\* the outcome, the worker loops
WorkerFinish(w) ==
    /\ wpc[w] = "running"
    /\ LET r == wtask[w]
           f == records[r].func
       IN  IF Reschedules(f)
           THEN /\ lock = "free"
                /\ Len(records) < cfg.max_records
                /\ LET s == ScheduleCall(f, f.priority, f.interval,
                                         f.max_retries, records[r].task_id)
                   IN  /\ records' = [s.records EXCEPT ![r] = Outcome(@)]
                       /\ ready_queue' = s.ready_queue
                       /\ scheduled_tasks' = s.scheduled_tasks
                       /\ tasks' = s.tasks
                /\ hist' = Append(Assigned(r), NoHist)
           ELSE /\ records' = [records EXCEPT ![r] = Outcome(@)]
                /\ hist' = Assigned(r)
                /\ UNCHANGED <<ready_queue, scheduled_tasks, tasks>>
    /\ wpc' = [wpc EXCEPT ![w] = AfterRun(records[wtask[w]])]
    /\ wtask' = [wtask EXCEPT ![w] = 0]
    /\ UNCHANGED <<globals, cfg, nsub, clock, running, lock, caller, sched>>

----------------------------------------------------------------------------
\* the caller is inside get_task_result(id, timeout) and start_time + timeout
\* is passed when the clock goes from now to now + 1
DeadlineElapses(now) ==
    /\ caller.pc \in {"poll", "found", "waited"}
    /\ cfg.plan[nsub].timeout # NoTimeout
    /\ now - caller.start_time <= cfg.plan[nsub].timeout
    /\ now + 1 - caller.start_time > cfg.plan[nsub].timeout

\* every thread waits: the caller sleeps until its next call, waits in a join
\* or between two polls, or has ended; the promotion thread sleeps; every
\* worker waits for an item at an empty Ready Queue
Quiescent ==
    /\ \/ caller.pc \in {"join", "poll", "waited"}
       \/ caller.pc = "idle" /\ nsub = Len(cfg.plan)
       \/ caller.pc = "idle" /\ nsub < Len(cfg.plan) /\ NextCall.at > clock
    /\ \/ sched.pc \in {"new", "dead"}
       \/ sched.pc = "top" /\ clock < sched.wake
    /\ \A w \in DOMAIN wpc :
          \/ wpc[w] \in {"new", "dead"}
          \/ wpc[w] = "get" /\ ready_queue = <<>>

\* time passes, in a run that keeps time only when every thread waits; it is
\* observed whether the task a get_task_result waits for is in a terminal
\* state when the deadline of the call elapses
Tick ==
    /\ clock < cfg.horizon
    /\ cfg.prompt => Quiescent
    /\ clock' = clock + 1
    /\ caller' =
          IF DeadlineElapses(clock)
          THEN LET r == tasks[cfg.plan[nsub].target]
               IN  [caller EXCEPT
                      !.deadline = IF r # 0 /\ Terminal(records[r].status)
                                   THEN "terminal" ELSE "open"]
          ELSE caller
    /\ UNCHANGED <<globals, cfg, nsub, records, tasks, ready_queue, scheduled_tasks,
                   running, lock, sched, wpc, wtask, hist>>

Next ==
    \/ Start
    \/ Stop
    \/ StopSignal
    \/ StopJoined
    \/ Schedule
    \/ SchedulePeriodic
    \/ CancelCheck
    \/ CancelSet
    \/ GetTaskStatus
    \/ ResultCall
    \/ ResultPoll
    \/ ResultReturn
    \/ ResultDeadline
    \/ SchedulerTop
    \/ SchedulerPromote
    \/ SchedulerSleep
    \/ \E w \in DOMAIN wpc : WorkerTop(w)
    \/ \E w \in DOMAIN wpc : WorkerGet(w)
    \/ \E w \in DOMAIN wpc : WorkerTimeout(w)
    \/ \E w \in DOMAIN wpc : WorkerRun(w)
    \/ \E w \in DOMAIN wpc : WorkerFinish(w)
    \/ Tick

----------------------------------------------------------------------------
(* The global accessor: get_scheduler and shutdown_scheduler, called by
   several threads; no lock is taken, so every read and write of the global
   is a step of its own *)

Threads == DOMAIN globals.calls

\* thread t is between two calls and its next call is op
ThreadAt(t, op) ==
    /\ globals.pc[t] = "idle"
    /\ Len(globals.ret[t]) < Len(globals.calls[t])
    /\ globals.calls[t][Len(globals.ret[t]) + 1] = op

\* the call thread t is in ends with reply
Ends(t, reply) ==
    [globals EXCEPT !.pc[t] = "idle", !.inst[t] = 0,
                    !.ret[t] = Append(@, reply)]

\* the instance a call returns, and whether it is started at that time
Instance(i) ==
    [kind |-> "return", value |-> i,
     started |-> i # 0 /\ globals.instances[i].running
                       /\ globals.instances[i].thread_started]

FrameOfScheduler ==
    UNCHANGED <<cfg, nsub, clock, records, tasks, ready_queue, scheduled_tasks,
                running, lock, caller, sched, wpc, wtask, hist>>

\* _scheduler is None
IsNone(g) == g.scheduler = 0

\* get_scheduler: if _scheduler is None
GetTest(t) ==
    /\ ThreadAt(t, "get")
    /\ globals' = [globals EXCEPT
                     !.pc[t] = IF IsNone(globals) THEN "create" ELSE "return"]
    /\ FrameOfScheduler

\* get_scheduler: _scheduler = TaskScheduler()
GetCreate(t) ==
    /\ globals.pc[t] = "create"
    /\ globals' = [globals EXCEPT
                     !.instances = Append(@, [running |-> FALSE,
                                              thread_started |-> FALSE]),
                     !.scheduler = Len(globals.instances) + 1,
                     !.pc[t] = "start"]
    /\ FrameOfScheduler

\* get_scheduler: _scheduler.start(), up to "if self.running: return"; the
\* global is read again and may be None by now
GetStart(t) ==
    /\ globals.pc[t] = "start"
    /\ LET i == globals.scheduler
       IN  globals' =
              IF i = 0 THEN Ends(t, Raised("AttributeError"))
              ELSE IF globals.instances[i].running
              THEN [globals EXCEPT !.pc[t] = "return"]
              ELSE [globals EXCEPT !.pc[t] = "starting", !.inst[t] = i]
    /\ FrameOfScheduler

\* TaskScheduler.start: self.running = True; self.scheduler_thread.start(),
\* which raises RuntimeError for a thread that has been started
GetStarting(t) ==
    /\ globals.pc[t] = "starting"
    /\ LET i == globals.inst[t]
       IN  globals' =
              IF globals.instances[i].thread_started
              THEN [Ends(t, Raised("RuntimeError")) EXCEPT
                      !.instances[i].running = TRUE]
              ELSE [globals EXCEPT !.instances[i].running = TRUE,
                                   !.instances[i].thread_started = TRUE,
                                   !.pc[t] = "return", !.inst[t] = 0]
    /\ FrameOfScheduler

\* get_scheduler: return _scheduler
GetReturn(t) ==
    /\ globals.pc[t] = "return"
    /\ globals' = Ends(t, Instance(globals.scheduler))
    /\ FrameOfScheduler

\* shutdown_scheduler: if _scheduler is not None
ShutdownTest(t) ==
    /\ ThreadAt(t, "shutdown")
    /\ globals' = IF globals.scheduler # 0
                  THEN [globals EXCEPT !.pc[t] = "stop"]
                  ELSE Ends(t, Returned("None"))
    /\ FrameOfScheduler

\* shutdown_scheduler: _scheduler.stop(wait=wait); the global is read again
ShutdownStop(t) ==
    /\ globals.pc[t] = "stop"
    /\ LET i == globals.scheduler
       IN  globals' =
              IF i = 0 THEN Ends(t, Raised("AttributeError"))
              ELSE [globals EXCEPT !.instances[i].running = FALSE,
                                   !.pc[t] = "clear"]
    /\ FrameOfScheduler

\* shutdown_scheduler: _scheduler = None
ShutdownClear(t) ==
    /\ globals.pc[t] = "clear"
    /\ globals' = [Ends(t, Returned("None")) EXCEPT !.scheduler = 0]
    /\ FrameOfScheduler

NextGlobal ==
    \/ \E t \in Threads : GetTest(t)
    \/ \E t \in Threads : GetCreate(t)
    \/ \E t \in Threads : GetStart(t)
    \/ \E t \in Threads : GetStarting(t)
    \/ \E t \in Threads : GetReturn(t)
    \/ \E t \in Threads : ShutdownTest(t)
    \/ \E t \in Threads : ShutdownStop(t)
    \/ \E t \in Threads : ShutdownClear(t)

\* one, two or three threads, each making up to three calls
AccessorCalls ==
    {<<"get">>, <<"get", "get">>, <<"get", "shutdown">>, <<"shutdown", "get">>,
     <<"get", "shutdown", "get">>}

AccessorRuns ==
    {<<a>> : a \in AccessorCalls}
    \cup {<<a, b>> : a \in AccessorCalls, b \in AccessorCalls}
    \cup {<<<<"get">>, <<"get">>, <<"get">>>>}

\* the module is imported and no scheduler of it is used directly
InitGlobal ==
    /\ cfg = Run(1, <<>>)
    /\ nsub = 0
    /\ clock = 0
    /\ records = <<>>
    /\ tasks = <<>>
    /\ ready_queue = <<>>
    /\ scheduled_tasks = <<>>
    /\ running = FALSE
    /\ lock = "free"
    /\ caller = [pc |-> "idle", task |-> 0, late |-> FALSE, wait |-> FALSE,
                 start_time |-> 0, deadline |-> "no", joined |-> FALSE,
                 ret |-> <<>>]
    /\ sched = [pc |-> "new", now |-> 0, wake |-> 0]
    /\ wpc = <<"new">>
    /\ wtask = <<0>>
    /\ hist = <<>>
    /\ \E calls \in AccessorRuns : globals = Globals(calls)

SpecGlobal == InitGlobal /\ [][NextGlobal]_vars

----------------------------------------------------------------------------
(* The runs that are checked *)

Priorities == {LOW, NORMAL, HIGH, CRITICAL}

\* one run through every operation
TourRuns ==
    {Run(1, <<DoStart, SubPeriodic(FALSE, NORMAL, 1, 0), Sub(NORMAL, 0),
              GetResult(3, 0), GetStatus(3), DoCancel(2), DoStop(TRUE)>>)}

\* the scenario of three priorities, started at any point
ScenarioRuns ==
    {Run(1, <<DoStart, Sub(NORMAL, 0), Sub(HIGH, 0), Sub(CRITICAL, 0)>>),
     Run(1, <<Sub(NORMAL, 0), DoStart, Sub(HIGH, 0), Sub(CRITICAL, 0)>>),
     Run(1, <<Sub(NORMAL, 0), Sub(HIGH, 0), DoStart, Sub(CRITICAL, 0)>>),
     Run(1, <<Sub(NORMAL, 0), Sub(HIGH, 0), Sub(CRITICAL, 0), DoStart>>)}

\* ordering in the Ready Queue: every priority, one or two workers, tasks
\* submitted before and after start(), delayed tasks, and the queue after stop()
OrderRuns ==
    {Run(n, <<Sub(p1, 0), Sub(p2, 0), Sub(p3, 0), DoStart>>) :
        n \in {1, 2}, p1 \in Priorities, p2 \in Priorities, p3 \in Priorities}
    \cup {Run(n, <<DoStart, Sub(p1, 0), Sub(p2, 0)>>) :
        n \in {1, 2}, p1 \in Priorities, p2 \in Priorities}
    \cup {Run(1, <<Sub(p1, d1), Sub(p2, d2), DoStart>>) :
        p1 \in {LOW, HIGH}, p2 \in {LOW, HIGH}, d1 \in {0, 1, 2}, d2 \in {0, 1, 2}}
    \cup {Run(2, <<DoStart, Sub(LOW, 0), Sub(p1, 0), DoStop(FALSE), DoStart,
                   Sub(p2, 0)>>) : p1 \in {LOW, NORMAL}, p2 \in {LOW, NORMAL}}
    \cup ScenarioRuns \cup TourRuns

\* tasks whose callable always raises, with 0, 1 or 2 retries allowed
RetryRuns ==
    {Run(n, <<DoStart, SubRaising(NORMAL, d, k)>>) :
        n \in {1, 2}, d \in {0, 1}, k \in {0, 1, 2}}
    \cup {Run(1, <<SubRaising(HIGH, 0, k), Sub(NORMAL, 0), DoStart>>) : k \in {0, 1}}

\* a cancel_task at any point of the life of a task, plain or retried
CancelRuns ==
    {Run(n, <<Sub(NORMAL, d), DoCancel(1), DoStart>>) : n \in {1, 2}, d \in {0, 1, 2}}
    \cup {Run(n, <<DoStart, Sub(NORMAL, d), DoCancel(2), DoCancel(2)>>) :
        n \in {1, 2}, d \in {0, 1, 2}}
    \cup {Run(1, <<DoStart, Sub(HIGH, 0), Sub(LOW, d), DoCancel(3)>>) : d \in {0, 1}}
    \cup {Run(1, <<DoStart, SubRaising(NORMAL, d, 1), DoCancel(2)>>) : d \in {0, 1}}
    \cup {Run(1, <<DoStart, Sub(NORMAL, d), DoCancel(1), DoCancel(2), DoCancel(2)>>) :
        d \in {0, 1}}

\* periodic tasks, succeeding and raising, cancelled or not, stopped or not
PeriodicRuns ==
    {Run(n, <<DoStart, SubPeriodic(raises, NORMAL, i, k)>>) :
        n \in {1, 2}, raises \in BOOLEAN, i \in {1, 2}, k \in {0, 1}}
    \cup {Run(1, <<DoStart, SubPeriodic(raises, NORMAL, 1, 0), DoCancel(2)>>) :
        raises \in BOOLEAN}
    \cup {Run(1, <<SubPeriodic(raises, NORMAL, 1, 0), DoStart, DoStop(wait)>>) :
        raises \in BOOLEAN, wait \in BOOLEAN}
    \cup {Run(1, <<DoStart, Sub(HIGH, 0), SubPeriodic(FALSE, LOW, 1, 0),
                   DoCancel(3)>>)}

\* stop() with tasks waiting, and start() after it
StopRuns ==
    {Run(n, <<DoStart, Sub(p, d), DoStop(wait), DoStart>>) :
        n \in {1, 2}, p \in {LOW, NORMAL}, d \in {0, 1, 2}, wait \in BOOLEAN}
    \cup {Run(n, <<DoStart, Sub(p, 0), Sub(NORMAL, d), DoStop(TRUE), DoStart>>) :
        n \in {1, 2}, p \in {LOW, NORMAL}, d \in {1, 2}}
    \cup {Run(1, <<DoStart, Sub(NORMAL, 2), DoStop(FALSE), DoStart, DoStop(TRUE)>>)}
    \cup {Run(n, <<DoStart, Sub(NORMAL, d), DoStop(wait), DoStop(TRUE), DoCancel(2)>>) :
        n \in {1, 2}, d \in {0, 1}, wait \in BOOLEAN}
    \cup {Run(1, <<DoStart, DoStop(wait), Sub(NORMAL, d), DoStart>>) :
        d \in {0, 1}, wait \in BOOLEAN}

\* schedule() with a negative delay
NegativeDelayRuns ==
    {Run(1, <<Sub(p, 0), Sub(p, 0 - 1), DoStart>>) : p \in {LOW, NORMAL}}
    \cup {Run(n, <<DoStart, Sub(NORMAL, d), Sub(NORMAL, 0 - 1)>>) :
        n \in {1, 2}, d \in {0, 1}}

\* schedule() with a priority that is no TaskPriority
UnknownPriorityRuns ==
    {Run(1, <<DoStart, Sub(NORMAL, d), Sub(p, 0)>>) :
        d \in {0, 1}, p \in {LOW - 1, CRITICAL + 1}}
    \cup {Run(1, <<Sub(CRITICAL, 0), Sub(CRITICAL + 1, 0), DoStart>>)}

\* schedule() with max_retries < 0, which it accepts as it is
NegativeRetriesRuns ==
    {Run(n, <<DoStart, Call("schedule", raises, NORMAL, d, 0 - 1, FALSE, 0, NoTimeout)>>) :
        n \in {1, 2}, raises \in BOOLEAN, d \in {0, 1}}

\* get_task_status on a task that has left the queues: run, failed, retried,
\* cancelled, and after stop()
StatusRuns ==
    {Run(n, <<DoStart, Sub(NORMAL, d), DoStop(wait), GetStatus(2)>>) :
        n \in {1, 2}, d \in {0, 1}, wait \in BOOLEAN}
    \cup {Run(1, <<DoStart, SubRaising(NORMAL, 0, k), GetStatus(2), DoStop(TRUE),
                   GetStatus(2)>>) : k \in {0, 1}}
    \cup {Run(1, <<Sub(NORMAL, d), DoCancel(1), DoStart, GetStatus(1)>>) : d \in {0, 1}}
    \cup {Run(1, <<DoStart, Sub(LOW, 0), DoStop(TRUE), Sub(LOW, 0), GetStatus(2),
                   GetStatus(4)>>)}

\* schedule() with a task_id that is already in use, the first task waiting,
\* running or done; then a cancel_task or a get_task_status on the id
DuplicateIdRuns ==
    {Run(n, <<DoStart, Sub(NORMAL, d), WithId(2, Sub(NORMAL, d)), c>>) :
        n \in {1, 2}, d \in {0, 1}, c \in {DoCancel(2), GetStatus(2)}}
    \cup {Run(1, <<Sub(NORMAL, d), WithId(1, Sub(NORMAL, d)), DoCancel(1), DoStart>>) :
        d \in {0, 1}}

\* start() called again on a started scheduler
StartRuns ==
    {Run(n, <<DoStart, DoStart, Sub(NORMAL, d), DoStart>>) :
        n \in {1, 2}, d \in {0, 1}}

\* get_task_result with a timeout on tasks that become terminal in time, late
\* or never (never started, stuck after a retry, delayed, cancelled)
TimeoutRuns ==
    {Run(1, <<Sub(NORMAL, 0), GetResult(1, 0)>>),
     Run(1, <<DoStart, SubRaising(NORMAL, 0, 1), GetResult(2, 0)>>),
     Run(1, <<DoStart, Sub(NORMAL, 0), DoCancel(2), GetResult(2, 0)>>)}
    \cup {Run(1, <<DoStart, Sub(NORMAL, d), GetResult(2, t)>>) :
        d \in {1, 2}, t \in {0, 1}}

\* get_task_result and get_task_status on tasks that complete, fail, are
\* retried, are cancelled or are periodic, and on an id no call has made
ResultRuns ==
    {Run(n, <<DoStart, Sub(NORMAL, d), GetResult(2, t)>>) :
        n \in {1, 2}, d \in {0, 1}, t \in {NoTimeout, 0, 1}}
    \cup {Run(1, <<SubRaising(NORMAL, 0, k), DoStart, GetResult(1, t), GetStatus(1)>>) :
        k \in {0, 1}, t \in {NoTimeout, 0}}
    \cup {Run(1, <<Sub(NORMAL, 0), DoCancel(1), DoStart, GetResult(1, t),
                   GetResult(2, t), GetStatus(2)>>) : t \in {NoTimeout, 0}}
    \cup {Run(1, <<DoStart, SubPeriodic(raises, NORMAL, 1, 0), GetResult(2, 1),
                   DoStop(FALSE), GetResult(2, 0)>>) : raises \in BOOLEAN}

Configs ==
    RetryRuns \cup CancelRuns \cup PeriodicRuns \cup StopRuns \cup ResultRuns
    \cup TimeoutRuns \cup StartRuns \cup NegativeDelayRuns
    \cup UnknownPriorityRuns \cup NegativeRetriesRuns \cup StatusRuns
    \cup DuplicateIdRuns \cup TourRuns

Init == InitWith(Configs)

Spec == Init /\ [][Next]_vars

\* the threads of the scheduler and the calling thread keep running, and time
\* passes; a thread that waits for self.lock gets it, the promotion thread
\* releasing it for the time of its sleep in every turn
Fairness ==
    /\ WF_vars(Tick)
    /\ WF_vars(CancelSet) /\ WF_vars(StopSignal) /\ WF_vars(StopJoined)
    /\ SF_vars(ResultPoll) /\ WF_vars(ResultReturn) /\ WF_vars(ResultDeadline)
    /\ WF_vars(SchedulerTop) /\ WF_vars(SchedulerPromote) /\ WF_vars(SchedulerSleep)
    /\ \A w \in 1..2 :
          /\ WF_vars(w \in DOMAIN wpc /\ WorkerTop(w))
          /\ WF_vars(w \in DOMAIN wpc /\ WorkerGet(w))
          /\ WF_vars(w \in DOMAIN wpc /\ WorkerTimeout(w))
          /\ WF_vars(w \in DOMAIN wpc /\ WorkerRun(w))
          /\ SF_vars(w \in DOMAIN wpc /\ WorkerFinish(w))

InitFair == InitWith(PeriodicRuns \cup TimeoutRuns \cup TourRuns)

FairSpec == InitFair /\ [][Next]_vars /\ Fairness

InitOrder == InitWith(OrderRuns)

\* the scenario of the periodic task: interval 1 s, 3.5 s between start() and
\* stop(); one or two workers, the task returning or raising, submitted just
\* after start() or up to one second before it
UptimeRuns ==
    {PromptRun(n, <<DoStart, SubPeriodic(raises, NORMAL, 2, 0),
                    At(7, DoStop(TRUE))>>) : n \in {1, 2}, raises \in BOOLEAN}
    \cup {PromptRun(n, <<SubPeriodic(raises, NORMAL, 2, 0), At(k, DoStart),
                    At(k + 7, DoStop(TRUE))>>) :
              n \in {1, 2}, raises \in BOOLEAN, k \in 0..2}

InitUptime == InitWith(UptimeRuns \cup TourRuns)

SpecUptime == InitUptime /\ [][Next]_vars

SpecOrder == InitOrder /\ [][Next]_vars

\* delayed tasks on a scheduler that keeps time: submitted while the promotion
\* loop sleeps with an empty Delay Heap, while it sleeps with a task due far
\* ahead, or before start(); delays of 0.5 s to 1.5 s, one or two workers
PromotionRuns ==
    {PromptRun(n, <<DoStart, At(a, Sub(NORMAL, d))>>) :
        n \in {1, 2}, a \in 0..3, d \in 1..3}
    \cup {PromptRun(1, <<DoStart, Sub(NORMAL, 6), At(a, Sub(p, d))>>) :
        a \in 0..3, d \in 1..3, p \in {NORMAL, HIGH}}
    \cup {PromptRun(1, <<Sub(NORMAL, d), At(k, DoStart), At(a, Sub(NORMAL, 1))>>) :
        d \in 1..3, k \in {0, 3}, a \in 3..5}

InitPromotion == InitWith(PromotionRuns \cup TourRuns)

SpecPromotion == InitPromotion /\ [][Next]_vars

----------------------------------------------------------------------------
(* What the claims speak about *)

\* the call of the plan that made the record (a periodic task keeps its id)
CallOf(r) == cfg.plan[records[r].task_id]
PriorityOf(r) == CallOf(r).priority
DelayOf(r) == CallOf(r).delay

\* worker w dequeues record r in this step
Dequeues(w, r) == wtask[w] = 0 /\ wtask'[w] = r

----------------------------------------------------------------------------
\* C1: priority preempts arrival order. Whenever a worker dequeues from the
\* Ready Queue while two tasks submitted with delay=0 are both waiting in it,
\* the one submitted earlier with the lower priority and the other submitted
\* later with the higher priority, the worker does not dequeue the
\* lower-priority one: the higher-priority task is dequeued first.
C1_PriorityPreempts ==
    [][\A w \in DOMAIN wtask : \A lo \in DOMAIN records : \A hi \in DOMAIN records :
          (/\ lo < hi
           /\ DelayOf(lo) = 0 /\ DelayOf(hi) = 0
           /\ PriorityOf(lo) < PriorityOf(hi)
           /\ InReady(lo) /\ InReady(hi))
          => ~Dequeues(w, lo)]_vars

\* a CRITICAL task submitted after a NORMAL one has been dequeued while the
\* NORMAL one is still waiting
C1_Witness ==
    \E lo \in DOMAIN records : \E hi \in DOMAIN records :
        /\ lo < hi
        /\ DelayOf(lo) = 0 /\ DelayOf(hi) = 0
        /\ PriorityOf(lo) = NORMAL /\ PriorityOf(hi) = CRITICAL
        /\ InReady(lo) /\ Held(hi)

----------------------------------------------------------------------------
\* C2: FIFO tie-break. Whenever a worker dequeues from the Ready Queue while
\* two tasks of equal priority are both waiting in it, whatever their delays,
\* it does not dequeue the one that was created later: the task submitted
\* earlier is dequeued first.
C2_FifoBySubmission ==
    [][\A w \in DOMAIN wtask : \A a \in DOMAIN records : \A b \in DOMAIN records :
          (/\ records[a].created_at < records[b].created_at
           /\ PriorityOf(a) = PriorityOf(b)
           /\ InReady(a) /\ InReady(b))
          => ~Dequeues(w, b)]_vars

----------------------------------------------------------------------------
\* the calls of a plan that submit a task
Submits(plan) == SelectSeq(plan, LAMBDA c : c.op \in {"schedule", "periodic"})

\* A (NORMAL, delay=0), B (HIGH, delay=0), C (CRITICAL, delay=0) are submitted
\* in that order, and nothing else, to a scheduler with one worker
Scenario ==
    /\ cfg.num_workers = 1
    /\ Submits(cfg.plan) = <<Sub(NORMAL, 0), Sub(HIGH, 0), Sub(CRITICAL, 0)>>

\* the callable of the r-th submitted task has been called
Ran(r) == r <= Len(hist) /\ hist[r].attempts > 0

\* the tasks that have run so far are C, or C and B, or C, B and A
OrderCBA == (Ran(1) => Ran(2)) /\ (Ran(2) => Ran(3))

\* C7 as claimed: in the scenario the tasks are executed in the order C, B, A.
C7_ScenarioOrder == Scenario => OrderCBA

\* C7 as amended: in the scenario, if the worker dequeues none of A, B, C
\* before all three have been submitted, they are executed in the order C, B, A.
C7_ScenarioOrderAllQueued ==
    (Scenario /\ \A r \in DOMAIN hist : hist[r].seen \in {0, 3}) => OrderCBA

\* all three have run, none dequeued before C was submitted
C7_Witness ==
    /\ Scenario
    /\ \A r \in 1..3 : Ran(r) /\ hist[r].seen = 3

----------------------------------------------------------------------------
\* a task of schedule() whose callable always raises
AlwaysRaises(r) == records[r].func.raises /\ ~records[r].func.wrapper

\* nothing will run the record again: no queue holds it and no worker has it
AtRest(r) == ~InReady(r) /\ ~InDelayed(r) /\ ~Held(r)

\* C3: a task with max_retries=K whose callable always raises reaches FAILED,
\* and only after exactly K+1 calls of its callable. As a statement about
\* states: the task is FAILED only with K+1 attempts made, and an attempted
\* task that was not cancelled and that neither waits in a queue nor is held
\* by a worker (so that nothing will attempt it again) is FAILED.
C3_FailsAfterAllRetries ==
    \A r \in DOMAIN records :
        AlwaysRaises(r) =>
            /\ records[r].status = "FAILED" =>
                  hist[r].attempts = CallOf(r).max_retries + 1
            /\ (hist[r].attempts > 0 /\ AtRest(r) /\ ~hist[r].cancelled) =>
                  records[r].status = "FAILED"

----------------------------------------------------------------------------
\* C4: a cancel_task that returns while the task still waits in the Delay
\* Heap or in the Ready Queue returns True, after it the callable of the task
\* is never called, and the status of the task stays CANCELLED.
C4_CancelBeforeDequeue ==
    \A r \in DOMAIN records :
        hist[r].cancelQ # "no" =>
            records[r].status = "CANCELLED" /\ ~hist[r].ranAfter

----------------------------------------------------------------------------
\* C5: a cancel_task called after a worker has dequeued the task never returns
\* True and never sets the status of the task to CANCELLED.
C5_NoCancelAfterClaim ==
    \A r \in DOMAIN records : ~hist[r].cancelLate

----------------------------------------------------------------------------
\* C6: while the clock is before submit_time + D, a task submitted with
\* delay=D > 0 waits in the Delay Heap: it is not in the Ready Queue, no
\* worker holds it, its callable has not been called, and its status is
\* PENDING (or CANCELLED, if a cancel_task has returned True for it).
C6_NotBeforeDue ==
    \A r \in DOMAIN records :
        (DelayOf(r) > 0 /\ clock < records[r].created_at + DelayOf(r)) =>
            /\ InDelayed(r) /\ ~InReady(r) /\ ~Held(r)
            /\ hist[r].attempts = 0
            /\ IF hist[r].cancelled THEN records[r].status = "CANCELLED"
               ELSE records[r].status = "PENDING"

\* a delayed task has been promoted and run
C6_Witness ==
    \E r \in DOMAIN records :
        /\ DelayOf(r) = 2
        /\ hist[r].attempts > 0
        /\ clock >= records[r].created_at + 2

----------------------------------------------------------------------------
\* worker w ends a run of the periodic task held in record r in this step
EndsPeriodicRun(w, r) ==
    /\ wpc[w] = "running" /\ wpc'[w] = "top"
    /\ wtask[w] = r
    /\ records[r].func.wrapper

\* a call to stop() has been made
StopCalled == \E i \in 1..nsub : cfg.plan[i].op = "stop"

\* C8: a periodic task (interval > 0) is rescheduled after every run, whether
\* the run succeeded or raised. When a run ends while the scheduler is running
\* and the task has not been cancelled, a new record exists under the same
\* task_id:
\* it is the one the task map holds, it is PENDING, and it waits in the Delay
\* Heap with scheduled_time = now + interval. Every such instance that becomes
\* due while the scheduler runs, no stop() having been called, is run in turn.
C8_PeriodicRescheduled ==
    /\ [][\A w \in DOMAIN wpc : \A r \in DOMAIN records :
            (/\ EndsPeriodicRun(w, r) /\ CallOf(r).delay > 0
             /\ running /\ ~hist[r].cancelled) =>
                LET n == Len(records) + 1
                IN  /\ Len(records') = n
                    /\ tasks'[records[r].task_id] = n
                    /\ records'[n].task_id = records[r].task_id
                    /\ records'[n].status = "PENDING"
                    /\ records'[n].scheduled_time = clock + CallOf(r).delay
                    /\ \E i \in 1..Len(scheduled_tasks') :
                          scheduled_tasks'[i] = <<clock + CallOf(r).delay, n>>
                    /\ \A i \in 1..Len(ready_queue') : ready_queue'[i][2] # n]_vars
    /\ \A k \in 1..MaxRecords :
          (/\ k \in DOMAIN records
           /\ records[k].func.wrapper
           /\ InDelayed(k)
           /\ running /\ ~StopCalled)
          ~> (/\ k \in DOMAIN records
              /\ \/ hist[k].attempts > 0
                 \/ hist[k].cancelled
                 \/ StopCalled
                 \/ records[k].scheduled_time > MaxTime)

\* a periodic task whose run raised and ended FAILED has a new PENDING
\* instance in the Delay Heap under the same task_id, and that one has a
\* successor in turn
C8_Witness ==
    \E r \in DOMAIN records : \E n \in DOMAIN records : \E m \in DOMAIN records :
        /\ r < n /\ n < m
        /\ records[r].func.wrapper
        /\ records[r].task_id = records[n].task_id
        /\ records[m].task_id = records[n].task_id
        /\ records[r].status = "FAILED"
        /\ hist[n].attempts > 0
        /\ records[m].status = "PENDING" /\ InDelayed(m)
        /\ tasks[records[r].task_id] = m

----------------------------------------------------------------------------
\* C9: once cancel_task has returned True for a periodic task that waited in
\* the Delay Heap or in the Ready Queue, its callable is not called again and
\* no new instance is made under its task_id.
C9_CancelStopsPeriodic ==
    \A r \in DOMAIN records :
        (records[r].func.wrapper /\ hist[r].cancelQ # "no") =>
            /\ ~hist[r].ranAfter
            /\ tasks[records[r].task_id] = r

----------------------------------------------------------------------------
\* C10: a task that waits in the Delay Heap, its delay not yet elapsed, when
\* stop(wait=True) is called never becomes RUNNING: its callable is never
\* called and its status stays PENDING (CANCELLED if it is cancelled
\* afterwards).
C10_StopLeavesDelayed ==
    \A r \in DOMAIN records :
        hist[r].atStop =>
            /\ hist[r].attempts = 0
            /\ IF hist[r].cancelled THEN records[r].status = "CANCELLED"
               ELSE records[r].status = "PENDING"

----------------------------------------------------------------------------
\* the call of get_task_result the caller is in ends in this step
EndsResult ==
    /\ caller.pc \in {"poll", "found", "waited"}
    /\ caller'.pc = "idle"

\* the record the task map holds for the id of the call the caller is in
Asked == tasks[cfg.plan[nsub].target]

\* C11: when get_task_result(id) returns a value or raises the stored error
\* for a known id, the task is in a terminal state at that moment (never
\* PENDING or RUNNING); if it is COMPLETED the call returns the stored result,
\* if it is FAILED the call raises the stored error.
C11_ResultOnlyWhenTerminal ==
    [][(EndsResult /\ Asked # 0 /\ caller'.ret[nsub] # Raised("TimeoutError")) =>
          LET task == records[Asked]
          IN  /\ Terminal(task.status)
              /\ task.status = "COMPLETED" =>
                    caller'.ret[nsub] = Returned(task.result)
              /\ task.status = "FAILED" =>
                    caller'.ret[nsub] = Raised(task.error)]_vars

----------------------------------------------------------------------------
\* the caller is inside a get_task_result(id, timeout) with a timeout
InTimedResult ==
    /\ caller.pc \in {"poll", "found", "waited"}
    /\ cfg.plan[nsub].timeout # NoTimeout

\* every get_task_result with a timeout ends (the deadline lies within the
\* time the model covers)
TimedResultEnds ==
    (InTimedResult /\ caller.start_time + cfg.plan[nsub].timeout < MaxTime)
        ~> (caller.pc = "idle")

----------------------------------------------------------------------------
\* a call stop(wait=True) has returned
StopWaitReturned ==
    \E i \in 1..nsub :
        /\ cfg.plan[i].op = "stop" /\ cfg.plan[i].wait
        /\ caller.ret[i] = Returned("None")

\* no thread of the scheduler is alive
ThreadsExited ==
    /\ sched.pc \in {"new", "dead"}
    /\ \A w \in DOMAIN wpc : wpc[w] \in {"new", "dead"}

\* the step changes the status of no task
NoStatusChange ==
    \A r \in DOMAIN records : records'[r].status = records[r].status

\* a step that is a call to stop() on a scheduler that is not running changes
\* nothing of the scheduler
StopTwiceNoOp ==
    (CallerAt("stop") /\ ~running /\ nsub' = nsub + 1) =>
        UNCHANGED <<records, tasks, ready_queue, scheduled_tasks, running,
                    lock, sched, wpc, wtask>>

\* C13 as claimed: once a call stop(wait=True) has returned, the promotion
\* thread and every worker thread have exited and no task's status changes
\* any more; a call to stop on a stopped scheduler changes no state.
C13_StoppedAfterStopWait ==
    /\ [](StopWaitReturned => ThreadsExited)
    /\ [][StopWaitReturned => NoStatusChange]_vars
    /\ [][StopTwiceNoOp]_vars

\* C13 as amended: once a call stop(wait=True) that found the scheduler
\* running has returned, the promotion thread and every worker thread have
\* exited and no task's status changes any more except by cancel_task; a call
\* to stop on a scheduler that is not running changes no state (and joins no
\* thread).
C13_StoppedAfterJoin ==
    /\ [](caller.joined => ThreadsExited)
    /\ [][caller.joined => (NoStatusChange \/ caller.pc = "cancel")]_vars
    /\ [][StopTwiceNoOp]_vars

\* stop(wait=True) has joined the threads with a task left PENDING, and a
\* second call to stop has returned
C13_Witness ==
    /\ caller.joined
    /\ \E r \in DOMAIN records : records[r].status = "PENDING"
    /\ \E i \in 1..nsub : \E j \in 1..nsub :
          /\ i < j
          /\ cfg.plan[i].op = "stop" /\ cfg.plan[j].op = "stop"
          /\ caller.ret[i] = Returned("None") /\ caller.ret[j] = Returned("None")

----------------------------------------------------------------------------
\* the calls to start() made so far
StartCalls == {i \in 1..nsub : cfg.plan[i].op = "start"}

\* C14: start() on a scheduler that is already started returns without
\* raising and changes nothing: no thread is launched. After any number of
\* calls to start(), no stop() having been called, the one promotion thread
\* and the N worker threads have been launched, and no call has raised.
C14_StartIdempotent ==
    /\ [][(CallerAt("start") /\ running /\ nsub' = nsub + 1) =>
             /\ caller'.ret[nsub + 1] = Returned("None")
             /\ UNCHANGED <<records, tasks, ready_queue, scheduled_tasks,
                            running, lock, sched, wpc, wtask>>]_vars
    /\ []((StartCalls # {} /\ ~StopCalled) =>
             /\ running
             /\ sched.pc # "new"
             /\ NumWorkerThreads = cfg.num_workers
             /\ \A w \in DOMAIN wpc : wpc[w] # "new"
             /\ \A i \in StartCalls : caller.ret[i] = Returned("None"))

\* start() has been called three times and has returned three times, and a
\* task has been run
C14_Witness ==
    /\ Cardinality(StartCalls) = 3
    /\ ~StopCalled
    /\ \A i \in StartCalls : caller.ret[i] = Returned("None")
    /\ \E r \in DOMAIN hist : hist[r].attempts > 0

----------------------------------------------------------------------------
\* the caller calls cancel_task in this step and the call returns False
CancelRefused ==
    /\ CallerAt("cancel")
    /\ nsub' = nsub + 1
    /\ caller'.pc = "idle"

\* cancel_task returns True in this step
CancelReturnsTrue == caller.pc = "cancel" /\ caller'.pc = "idle"

\* C15: cancel_task returns True only for a task that is PENDING, and the task
\* is CANCELLED after it; for an unknown id or a task that is not PENDING it
\* returns False and leaves the task map, both queues and every status as
\* they are.
C15_CancelFrame ==
    /\ [][CancelReturnsTrue =>
             /\ records[caller.task].status = "PENDING"
             /\ records'[caller.task].status = "CANCELLED"
             /\ caller'.ret[nsub] = Returned("True")]_vars
    /\ [][(CallerAt("cancel") /\ nsub' = nsub + 1 /\
              (tasks[NextCall.target] = 0
                  \/ records[tasks[NextCall.target]].status # "PENDING")) =>
             /\ CancelRefused
             /\ caller'.ret[nsub + 1] = Returned("False")
             /\ UNCHANGED <<records, tasks, ready_queue, scheduled_tasks>>]_vars

----------------------------------------------------------------------------
\* the caller calls schedule() in this step
Submitting == CallerAt("schedule") /\ nsub' = nsub + 1

\* C16: a schedule() with delay < 0 either raises and creates no task record,
\* or leaves the records and both queues exactly as the same call with
\* delay = 0 would; and a worker never dequeues a task submitted with a
\* negative delay while a task of equal priority submitted earlier with
\* delay = 0 still waits in the Ready Queue.
C16_NegativeDelay ==
    /\ [][(Submitting /\ NextCall.delay < 0) =>
             \/ /\ caller'.ret[nsub + 1].kind = "raise"
                /\ UNCHANGED <<records, tasks, ready_queue, scheduled_tasks>>
             \/ LET s == ScheduleCall(PlainFunc(NextCall.raises),
                                      NextCall.priority, 0,
                                      NextCall.max_retries, nsub + 1)
                IN  /\ records' = s.records
                    /\ tasks' = s.tasks
                    /\ ready_queue' = s.ready_queue
                    /\ scheduled_tasks' = s.scheduled_tasks]_vars
    /\ [][\A w \in DOMAIN wtask : \A a \in DOMAIN records : \A b \in DOMAIN records :
             (/\ a < b
              /\ DelayOf(a) = 0 /\ DelayOf(b) < 0
              /\ PriorityOf(a) = PriorityOf(b)
              /\ InReady(a) /\ InReady(b))
             => ~Dequeues(w, b)]_vars

----------------------------------------------------------------------------
\* the scheduler has been started and then stopped: a stop() made after a
\* start() has returned or raised
WasStopped ==
    /\ caller.pc = "idle"
    /\ \E i \in 1..nsub : \E j \in 1..nsub :
          i < j /\ cfg.plan[i].op = "start" /\ cfg.plan[j].op = "stop"

\* C17: on a scheduler that has been stopped, schedule() raises a
\* scheduler-state error and enqueues nothing, and start() raises that error
\* and changes nothing.
C17_RejectedWhenStopped ==
    /\ [][(Submitting /\ WasStopped) =>
             /\ caller'.ret[nsub + 1] = Raised("SchedulerStateError")
             /\ UNCHANGED <<records, tasks, ready_queue, scheduled_tasks>>]_vars
    /\ [][(CallerAt("start") /\ nsub' = nsub + 1 /\ WasStopped) =>
             /\ caller'.ret[nsub + 1] = Raised("SchedulerStateError")
             /\ UNCHANGED <<running, sched, wpc>>]_vars

----------------------------------------------------------------------------
\* the calls get_task_result(id) that have ended, for an id no call has made
\* and for the id of a task
UnknownResults ==
    {i \in 1..nsub : /\ cfg.plan[i].op = "result"
                     /\ caller.ret[i] # NoReply
                     /\ cfg.plan[cfg.plan[i].target].op \notin {"schedule", "periodic"}}
KnownResults ==
    {i \in 1..nsub : /\ cfg.plan[i].op = "result"
                     /\ caller.ret[i] # NoReply
                     /\ cfg.plan[i].target < i
                     /\ cfg.plan[cfg.plan[i].target].op \in {"schedule", "periodic"}}

\* C18: for an unknown id get_task_status returns None and get_task_result
\* ends the way no get_task_result on an existing task ends; neither call
\* changes anything of the scheduler.
C18_UnknownIdNotFound ==
    /\ [][(CallerAt("status") /\ nsub' = nsub + 1) =>
             /\ tasks[NextCall.target] = 0 =>
                   caller'.ret[nsub + 1] = Returned("None")
             /\ UNCHANGED <<records, tasks, ready_queue, scheduled_tasks,
                            running, lock, sched, wpc, wtask>>]_vars
    /\ [][(EndsResult /\ Asked = 0) =>
             UNCHANGED <<records, tasks, ready_queue, scheduled_tasks,
                         running, lock, sched, wpc, wtask>>]_vars
    /\ [](\A i \in UnknownResults : \A j \in KnownResults :
             caller.ret[i] # caller.ret[j])

----------------------------------------------------------------------------
\* C20: a schedule() with a priority outside LOW..CRITICAL raises at the call
\* and creates no task record.
C20_UnknownPriorityRejected ==
    [][(Submitting /\ NextCall.priority \notin Priorities) =>
          /\ caller'.ret[nsub + 1].kind = "raise"
          /\ UNCHANGED <<records, tasks, ready_queue, scheduled_tasks>>]_vars

----------------------------------------------------------------------------
\* the run is the scenario: a periodic task of interval 1 s, max_retries = 0,
\* and stop() 3.5 s after start()
UptimeScenario ==
    /\ cfg.prompt
    /\ cfg.second = 2
    /\ \E i \in 1..Len(cfg.plan) :
          /\ cfg.plan[i].op = "periodic"
          /\ cfg.plan[i].delay = 2 /\ cfg.plan[i].max_retries = 0
    /\ \E i, j \in 1..Len(cfg.plan) :
          /\ cfg.plan[i].op = "start" /\ cfg.plan[j].op = "stop"
          /\ cfg.plan[j].at - cfg.plan[i].at = 7

RECURSIVE SumAttempts(_)
SumAttempts(n) == IF n = 0 THEN 0 ELSE hist[n].attempts + SumAttempts(n - 1)

\* how many times the callable of the periodic task has been called
Executions == SumAttempts(Len(hist))

\* C19: in the scenario, once stop() has been called, the periodic task has
\* been executed at least 3 times and at most 4 times.
C19_UptimeExecutions ==
    (UptimeScenario /\ StopCalled) => (Executions >= 3 /\ Executions <= 4)

\* stop() has returned in the scenario, the task has been executed four
\* times and a PENDING instance of it is left in the Delay Heap
C19_Witness ==
    /\ UptimeScenario
    /\ caller.joined
    /\ Executions = 4
    /\ \E r \in DOMAIN records : records[r].status = "PENDING" /\ InDelayed(r)

----------------------------------------------------------------------------
\* the status of record r changes in this step
StatusChanges(r) == records'[r].status # records[r].status

\* C21: every status change of a task record is one of PENDING->RUNNING,
\* RUNNING->COMPLETED, RUNNING->FAILED, RUNNING->PENDING (retry) or
\* PENDING->CANCELLED; once a record is COMPLETED, FAILED or CANCELLED its
\* status never changes again.
C21_StatusTransitions ==
    [][\A r \in DOMAIN records :
          StatusChanges(r) =>
             /\ <<records[r].status, records'[r].status>> \in
                   {<<"PENDING", "RUNNING">>, <<"RUNNING", "COMPLETED">>,
                    <<"RUNNING", "FAILED">>, <<"RUNNING", "PENDING">>,
                    <<"PENDING", "CANCELLED">>}
             /\ ~Terminal(records[r].status)]_vars

----------------------------------------------------------------------------
\* C22: in every reachable state, every task record present in the Ready
\* Queue or in the Delay Heap has status PENDING.
C22_QueuedArePending ==
    \A r \in DOMAIN records :
        (InReady(r) \/ InDelayed(r)) => records[r].status = "PENDING"

----------------------------------------------------------------------------
\* the callable of record r, run by worker w, raises in this step while
\* retries < max_retries
RetryStep(w, r) ==
    /\ wpc[w] = "running" /\ wpc'[w] # "running"
    /\ wtask[w] = r
    /\ records[r].func.raises
    /\ records[r].retries < records[r].max_retries

\* C23: when a task's callable raises while retries < max_retries, retries
\* is incremented by exactly 1, the status returns to PENDING and the task is
\* re-inserted into the Ready Queue.
C23_RetryReinserts ==
    [][\A w \in DOMAIN wpc : \A r \in DOMAIN records :
          RetryStep(w, r) =>
             /\ records'[r].retries = records[r].retries + 1
             /\ records'[r].status = "PENDING"
             /\ \E i \in 1..Len(ready_queue') : ready_queue'[i][2] = r]_vars

----------------------------------------------------------------------------
\* run() has assigned the result, the error of the record
ResultSet(r) == hist[r].results > 0
ErrorSet(r) == hist[r].errors > 0

\* C24: in every reachable state a task's result is set if and only if its
\* status is COMPLETED and its error is set if and only if its status is
\* FAILED; result and error are never both set, and each is written at most
\* once.
C24_OutcomeSlots ==
    \A r \in DOMAIN records :
        /\ ResultSet(r) <=> records[r].status = "COMPLETED"
        /\ ErrorSet(r) <=> records[r].status = "FAILED"
        /\ ~(ResultSet(r) /\ ErrorSet(r))
        /\ hist[r].results <= 1 /\ hist[r].errors <= 1

----------------------------------------------------------------------------
\* how many items of the heap list q refer to record r
Occurrences(q, r) == Cardinality({i \in 1..Len(q) : q[i][2] = r})

\* the workers that hold record r in their local `task`
Holders(r) == {w \in DOMAIN wtask : wtask[w] = r}

\* C25: in every reachable state each task record is in at most one of the
\* Delay Heap, the Ready Queue and the hands of a worker, it appears at most
\* once there, and at most one worker holds it.
C25_OnePlacePerRecord ==
    \A r \in DOMAIN records :
        Occurrences(scheduled_tasks, r) + Occurrences(ready_queue, r)
            + Cardinality(Holders(r)) <= 1

\* two workers execute two different records at the same time, one of them a
\* record that has gone through the Delay Heap
C25_Witness ==
    /\ \E w1 \in DOMAIN wpc : \E w2 \in DOMAIN wpc :
          /\ w1 # w2
          /\ wpc[w1] = "running" /\ wpc[w2] = "running"
          /\ wtask[w1] # wtask[w2]
          /\ records[wtask[w1]].scheduled_time > records[wtask[w1]].created_at

----------------------------------------------------------------------------
\* the run is cut: a periodic task is about to create one record more than
\* the run has room for, or the task is due only after the last instant
CutShort(k) ==
    \/ records[k].scheduled_time > cfg.horizon
    \/ /\ Len(records) = cfg.max_records
       /\ \E w \in DOMAIN wpc :
             wpc[w] = "running" /\ records[wtask[w]].func.wrapper

\* C26: every task submitted to a started scheduler that is neither cancelled
\* nor stopped eventually reaches COMPLETED or FAILED, whatever its
\* max_retries and whether its callable returns or raises.
C26_EventuallyTerminal ==
    \A k \in 1..MaxRecords :
        (k \in DOMAIN records /\ running /\ ~StopCalled)
        ~> (/\ k \in DOMAIN records
            /\ \/ records[k].status \in {"COMPLETED", "FAILED"}
               \/ hist[k].cancelled
               \/ StopCalled
               \/ CutShort(k))

----------------------------------------------------------------------------
\* the callable of record r, run by worker w, raises in this step
RaisesIn(w, r) ==
    /\ wpc[w] = "running" /\ wpc'[w] # "running"
    /\ wtask[w] = r
    /\ records[r].func.raises

----------------------------------------------------------------------------
\* C28: in every reachable state every task satisfies
\* retries <= max_retries, and retries never decreases.
C28_RetriesNeverExceed ==
    /\ [](\A r \in DOMAIN records : records[r].retries <= records[r].max_retries)
    /\ [][\A r \in DOMAIN records :
            records'[r].retries >= records[r].retries]_vars

----------------------------------------------------------------------------
\* when start() is called in a run that keeps time
StartedAt ==
    cfg.plan[CHOOSE i \in 1..Len(cfg.plan) : cfg.plan[i].op = "start"].at

\* C29: while the scheduler is running, a PENDING task in the Delay Heap is
\* moved to the Ready Queue no later than its scheduled time plus one second
\* (counted from start() for a task that was due before it): on a scheduler
\* that keeps time, no PENDING task is still in the Delay Heap later than that.
C29_PromotionLatency ==
    \A r \in DOMAIN records :
        (/\ cfg.prompt /\ running /\ ~StopCalled
         /\ records[r].status = "PENDING" /\ InDelayed(r)) =>
            clock <= Max(records[r].scheduled_time, StartedAt) + cfg.second

\* a task submitted while the promotion loop was asleep has been moved to the
\* Ready Queue half a second after its scheduled time
C29_Witness ==
    \E r \in DOMAIN records :
        /\ cfg.prompt /\ running /\ ~StopCalled
        /\ records[r].created_at > StartedAt
        /\ records[r].scheduled_time > records[r].created_at
        /\ InReady(r)
        /\ clock = records[r].scheduled_time + 1

----------------------------------------------------------------------------
\* the calls of the plan made so far that returned a task_id
IdsReturned == {TaskIdOf(i) : i \in {j \in 1..nsub : caller.ret[j] = Returned("task_id")}}

\* C30: every task_id returned by a submit stays in the task map for the
\* lifetime of the scheduler: the map holds a record of that id in every
\* later state, no step removes an entry, and a get_task_status on the id
\* returns the status of that record, never None, whatever the state of the
\* task and also after stop().
C30_RecordsStayQueryable ==
    /\ [](\A i \in IdsReturned :
            /\ tasks[i] \in DOMAIN records
            /\ records[tasks[i]].task_id = i)
    /\ [][\A i \in DOMAIN tasks : tasks[i] # 0 => tasks'[i] # 0]_vars
    /\ [][(CallerAt("status") /\ nsub' = nsub + 1
             /\ NextCall.target \in IdsReturned) =>
             /\ caller'.ret[nsub + 1] # Returned("None")
             /\ caller'.ret[nsub + 1] =
                   Returned(records[tasks[NextCall.target]].status)]_vars

\* after stop(), get_task_status has returned COMPLETED for a task that is in
\* no queue any more
C30_Witness ==
    \E i \in 1..nsub :
        /\ cfg.plan[i].op = "status"
        /\ cfg.plan[i].target \in IdsReturned
        /\ caller.ret[i] = Returned("COMPLETED")
        /\ \E j \in 1..(i - 1) : cfg.plan[j].op = "stop"
        /\ AtRest(tasks[cfg.plan[i].target])

----------------------------------------------------------------------------
\* the records whose status is RUNNING
RunningRecords == {r \in DOMAIN records : records[r].status = "RUNNING"}

\* the worker threads that have been started and have not ended
LiveWorkers == {w \in DOMAIN wpc : wpc[w] \notin {"new", "dead"}}

\* C31: the pool size is fixed. In every reachable state at most N task
\* records have status RUNNING, N being the worker count given at
\* construction, and there are never more than N worker threads: not in
\* self.workers and not alive, also after start() is called again.
C31_PoolSizeFixed ==
    /\ Cardinality(RunningRecords) <= cfg.num_workers
    /\ NumWorkerThreads <= cfg.num_workers
    /\ Cardinality(LiveWorkers) <= cfg.num_workers

\* both workers of a pool of two execute a task each
C31_Witness ==
    /\ cfg.num_workers = 2
    /\ Cardinality(RunningRecords) = 2
    /\ \A w \in DOMAIN wpc : wpc[w] = "running"

----------------------------------------------------------------------------
\* the shutdown signals (0, None) in the Ready Queue
Signals(q) == Cardinality({i \in 1..Len(q) : q[i] = <<0, None>>})

\* C32: stop() completes without raising for every content of the Ready
\* Queue: no call of stop() raises, and the step of stop() that inserts the
\* shutdown signals adds one signal per worker thread to the Ready Queue, also
\* when the queue holds LOW-priority tasks, whose queue key is 0 as well.
C32_StopNeverRaises ==
    /\ [](\A i \in 1..nsub :
            cfg.plan[i].op = "stop" => caller.ret[i].kind # "raise")
    /\ [][(caller.pc = "stop" /\ caller'.pc # "stop") =>
             Signals(ready_queue') = Signals(ready_queue) + NumWorkerThreads]_vars

----------------------------------------------------------------------------
\* C33: task ids identify records uniquely. In every reachable state every
\* record that waits in the Ready Queue or in the Delay Heap or is held by a
\* worker is the record the task map holds under its task_id, also after a
\* schedule() that passes a task_id already in use.
C33_IdsIdentifyRecords ==
    \A r \in DOMAIN records :
        (InReady(r) \/ InDelayed(r) \/ Held(r)) => tasks[records[r].task_id] = r

----------------------------------------------------------------------------
\* a cancel_task on record r returned True while r waited in the Delay Heap
CancelledDelayed(r) == hist[r].cancelQ = "delayed"

\* C34: a task cancelled while it is in the Delay Heap is discarded by the
\* promotion loop. The step of the loop that takes it from the heap leaves
\* the Ready Queue as it is; the task is never in the Ready Queue, never held
\* by a worker, its callable is never called, and its status stays CANCELLED.
C34_CancelledDelayedDiscarded ==
    /\ [](\A r \in DOMAIN records :
            CancelledDelayed(r) =>
               /\ ~InReady(r) /\ ~Held(r)
               /\ hist[r].attempts = 0
               /\ records[r].status = "CANCELLED")
    /\ [][\A r \in DOMAIN records :
            (/\ CancelledDelayed(r) /\ InDelayed(r)
             /\ \A i \in 1..Len(scheduled_tasks') : scheduled_tasks'[i][2] # r) =>
               /\ sched.pc = "loop"
               /\ ready_queue' = ready_queue]_vars

\* the promotion loop of a running scheduler has taken a cancelled task from
\* the Delay Heap at its scheduled time and dropped it
C34_Witness ==
    \E r \in DOMAIN records :
        /\ CancelledDelayed(r)
        /\ running
        /\ AtRest(r)
        /\ records[r].status = "CANCELLED"
        /\ clock >= records[r].scheduled_time


----------------------------------------------------------------------------
(* C35: the global accessor *)

\* the get_scheduler calls that have ended: thread and position
GetsEnded ==
    {tk \in Threads \X (1..3) :
        /\ tk[2] <= Len(globals.ret[tk[1]])
        /\ globals.calls[tk[1]][tk[2]] = "get"}

\* the shutdown_scheduler calls that have ended
ShutdownsEnded ==
    {tk \in Threads \X (1..3) :
        /\ tk[2] <= Len(globals.ret[tk[1]])
        /\ globals.calls[tk[1]][tk[2]] = "shutdown"}

\* no thread of the run calls shutdown_scheduler
NoShutdown ==
    \A t \in Threads : \A k \in 1..Len(globals.calls[t]) :
        globals.calls[t][k] = "get"

\* C35: get_scheduler creates at most one TaskScheduler between two
\* shutdown_scheduler calls (never more instances than one plus the shutdown
\* calls that have ended); every get_scheduler call returns an instance, and
\* a started one; while no thread calls shutdown_scheduler all calls, of all
\* threads, return the same instance; and a call made after a
\* shutdown_scheduler of the same thread returns another instance than the
\* call made before it.
C35_OneStartedInstance ==
    /\ Len(globals.instances) <= 1 + Cardinality(ShutdownsEnded)
    /\ NoShutdown =>
          \A a \in GetsEnded : \A b \in GetsEnded :
              /\ globals.ret[a[1]][a[2]].kind = "return"
              /\ globals.ret[a[1]][a[2]].value # 0
              /\ globals.ret[a[1]][a[2]].started
              /\ globals.ret[a[1]][a[2]].value = globals.ret[b[1]][b[2]].value
    /\ Cardinality(Threads) = 1 =>
          /\ \A a \in GetsEnded :
                /\ globals.ret[a[1]][a[2]].kind = "return"
                /\ globals.ret[a[1]][a[2]].value # 0
                /\ globals.ret[a[1]][a[2]].started
          /\ \A a \in GetsEnded : \A b \in GetsEnded :
                (\E c \in ShutdownsEnded : a[2] < c[2] /\ c[2] < b[2]) =>
                    globals.ret[a[1]][a[2]].value # globals.ret[b[1]][b[2]].value

====
